---- MODULE Spec2Model ----
(***************************************************************************)
(* Model of src/main.py: the process-wide access token of the Groww stock  *)
(* data API (access_token, groww, token_generated_date), its regeneration  *)
(* (generate_access_token), the decision rule (should_regenerate_token),   *)
(* the lazy path (get_valid_access_token), the daily scheduler thread      *)
(* (schedule_token_refresh) and the HTTP handlers that use them.           *)
(*                                                                         *)
(* Three threads of control exist: "main" runs the module body (startup),  *)
(* "req" is the event loop that runs the async handlers one at a time,     *)
(* "sched" is the daemon thread started by schedule_token_refresh.  The    *)
(* three global writes of generate_access_token are separate steps, so     *)
(* "sched" and "req" interleave as the threads of the program do.          *)
(***************************************************************************)
EXTENDS Integers, Sequences, FiniteSets, TLC

\* ---------------------------------------------------------------- bounds
\* last calendar day the clock reaches (days are 0..MaxDay)
MaxDay == 2
\* longest symbol list a request carries
MaxSymbols == 2
\* longest list of candle entries the upstream returns
MaxCandles == 2

\* ------------------------------------------------------------- constants
\* time(3, 30) in minutes since midnight
Cutover == 3 * 60 + 30
MinutesPerDay == 24 * 60
\* wall-clock times of day (minutes) the clock visits: the last minute
\* before the cutover, the cutover itself, and a time after it
TimesOfDay == {Cutover - 1, Cutover, 10 * 60}
Days == 0..MaxDay
Symbols == {"RELIANCE", "TCS"}
Threads == {"main", "sched", "req"}

\* Python None for the token and the client; no date for the issue date
None == [none |-> TRUE]
NoDate == -1
\* os.getenv of a variable that is not set
Unset == "<unset>"
EnvValues == {Unset, "", " ", "k"}

VARIABLES
    now,                    \* datetime.now(): [day, time]
    api_key, secret,        \* module globals, lines 55-62
    access_token,           \* module global, line 82
    groww,                  \* module global, line 83
    token_generated_date,   \* module global, line 84
    pc,                     \* position of each thread
    next_run,               \* day of the scheduled job's next 03:30 run
    gen,                    \* per thread: the current/last generate_access_token call
    built,                  \* per thread: the GrowwAPI object line 103 has constructed
    req,                    \* the request being handled by the event loop
    current_token,          \* handler local, line 200
    current_groww,          \* handler local, line 200
    data_calls,             \* upstream data calls made by the current request
    resp,                   \* the response of the request being handled
    items,                  \* the entries handed to iterate_and_append, line 335
    item_no,                \* how many of them the loop of line 336 has taken
    candles_array,          \* line 303
    appended_from           \* for each candle, the position of its entry in items

vars == <<now, api_key, secret, access_token, groww, token_generated_date,
          pc, next_run, gen, built, req, current_token, current_groww, data_calls, resp,
          items, item_no, candles_array, appended_from>>

\* the token lifecycle and the request in progress
lifecycle == <<now, api_key, secret, access_token, groww, token_generated_date,
               pc, next_run, gen, built, req, current_token, current_groww,
               data_calls, resp>>

\* the normalisation of one upstream candle response
normalisation == <<items, item_no, candles_array, appended_from>>

cred == <<access_token, groww, token_generated_date>>

\* ---------------------------------------------------------------- helpers
\* truthiness of an Optional[str]
Truthy(s) == s # Unset /\ s # ""

\* str(s).strip() on the values of EnvValues
Strip(s) == IF s = " " THEN "" ELSE s

\* lines 59-62: strip the value if it is truthy
CleanCredential(s) == IF Truthy(s) THEN Strip(s) ELSE s

\* an instant as minutes since day 0, 00:00
Minutes(t) == t.day * MinutesPerDay + t.time

\* the token an exchange made by thread p at instant t returns
NewToken(p, t) == [by |-> p, day |-> t.day, time |-> t.time]

\* GrowwAPI(token)
Client(tok) == [token |-> tok]

\* f"NSE_{symbol}"
ExchangeSymbol(symbol) == "NSE_" \o symbol

\* the non-empty symbol lists a request carries
SymbolLists == UNION {[1..n -> Symbols] : n \in 1..MaxSymbols}

NoGen == [calls |-> 0, result |-> "none"]
NoReq == [kind |-> "none", has_symbols |-> FALSE, symbols |-> <<>>]
NoResp == [status |-> 0, error |-> "none", data |-> {},
           token_generated_date |-> NoDate, should_regenerate |-> FALSE]

\* ------------------------------------------------ should_regenerate_token
\* a variant whose first test is lost
should_regenerate_token_NoNoneCheck(cur, tok, gdate) ==
    IF cur.day > gdate
    THEN gdate # NoDate /\ cur.time >= Cutover
    ELSE IF cur.day = gdate
    THEN cur.time >= Cutover
             /\ gdate * MinutesPerDay < cur.day * MinutesPerDay + Cutover
    ELSE FALSE

\* a variant whose same-day branch does not look at the time of day
should_regenerate_token_NoTimeCheck(cur, tok, gdate) ==
    IF tok = None \/ gdate = NoDate THEN TRUE
    ELSE IF cur.day > gdate
    THEN cur.time >= Cutover
    ELSE IF cur.day = gdate
    THEN gdate * MinutesPerDay < cur.day * MinutesPerDay + Cutover
    ELSE FALSE

\* a variant that compares the time of day with > instead of >=
should_regenerate_token_Strict(cur, tok, gdate) ==
    IF tok = None \/ gdate = NoDate THEN TRUE
    ELSE IF cur.day > gdate
    THEN cur.time > Cutover
    ELSE IF cur.day = gdate
    THEN cur.time > Cutover
             /\ gdate * MinutesPerDay < cur.day * MinutesPerDay + Cutover
    ELSE FALSE

\* lines 113-138, with cur = datetime.now()
should_regenerate_token(cur, tok, gdate) ==
    IF tok = None \/ gdate = NoDate THEN TRUE
    ELSE IF cur.day > gdate
    THEN cur.time >= Cutover
    ELSE IF cur.day = gdate
    THEN cur.time >= Cutover
             \* datetime.combine(token_generated_date, time(0, 0)) < today_330am
             /\ gdate * MinutesPerDay < cur.day * MinutesPerDay + Cutover
    ELSE FALSE

\* schedule's next run of every().day.at("03:30") computed at instant t:
\* today's 03:30 if it is still ahead, else tomorrow's
NextRunDay(t) == IF t.time < Cutover THEN t.day ELSE t.day + 1

\* ------------------------------------------------------------------- Init
Init ==
    /\ now \in [day : {0}, time : TimesOfDay]
    /\ \E k \in EnvValues, s \in EnvValues :
          /\ api_key = CleanCredential(k)
          /\ secret = CleanCredential(s)
    /\ access_token = None
    /\ groww = None
    /\ token_generated_date = NoDate
    /\ pc = [p \in Threads |-> IF p = "main" THEN "start" ELSE "off"]
    /\ next_run = NoDate
    /\ gen = [p \in Threads |-> NoGen]
    /\ built = [p \in Threads |-> None]
    /\ req = NoReq
    /\ current_token = None
    /\ current_groww = None
    /\ data_calls = <<>>
    /\ resp = NoResp
    /\ items = <<>>
    /\ item_no = 0
    /\ candles_array = <<>>
    /\ appended_from = <<>>

\* ------------------------------------------------------------------ clock
\* the scheduled job is due: the scheduler thread is asleep between two
\* polls and the job's next run is not in the future
Due ==
    /\ pc["sched"] = "sleep"
    /\ Minutes(now) >= next_run * MinutesPerDay + Cutover

\* the instant that follows t among the instants the clock visits
NextInstant(t) ==
    IF \E m \in TimesOfDay : m > t.time
    THEN [day |-> t.day,
          time |-> CHOOSE m \in TimesOfDay :
                      m > t.time /\ \A k \in TimesOfDay : k > t.time => m <= k]
    ELSE [day |-> t.day + 1,
          time |-> CHOOSE m \in TimesOfDay : \A k \in TimesOfDay : m <= k]

\* no thread is in the middle of the module body, a handler or the job
Resting ==
    /\ pc["main"] \in {"start", "serving"}
    /\ pc["sched"] \in {"off", "sleep", "dead"}
    /\ pc["req"] \in {"off", "idle"}

\* Time passes.  The scheduler loop polls every 60 seconds (line 156), so
\* the clock does not move on to the next instant while a due job waits
\* for its poll.  The instants the clock visits are hours apart except
\* 03:29 and 03:30: a call in progress sees the clock move only across
\* that one minute, the hours pass between calls.
Tick ==
    /\ ~Due
    /\ Resting \/ Minutes(NextInstant(now)) = Minutes(now) + 1
    /\ NextInstant(now).day <= MaxDay
    /\ now' = NextInstant(now)
    /\ UNCHANGED <<api_key, secret, built, access_token, groww, token_generated_date,
                   pc, next_run, gen, built, req, current_token, current_groww,
                   data_calls, resp>>
    /\ UNCHANGED normalisation

\* ------------------------------------------------- generate_access_token
StartGen == [calls |-> 0, result |-> "running"]

Response(status, error, data, gdate, sr) ==
    [status |-> status, error |-> error, data |-> data,
     token_generated_date |-> gdate, should_regenerate |-> sr]

\* What the caller of generate_access_token does when the call made by
\* thread p ends with record g (g.result is "ok" or the error raised):
\*   main  (lines 178-186): on success start the scheduler, on failure only
\*          print; in both cases the module body ends and the app serves;
\*   sched (lines 153-156): schedule reschedules the job after a run that
\*          returned; an exception of the job leaves run_pending and the
\*          while loop, which has no handler, and the thread ends;
\*   req   (lines 393-404, 144-147, 216-219): /refresh-token answers, or
\*          get_valid_access_token goes on to its return statement, or the
\*          HTTPException reaches the client as a 500.
Finish(p, g) ==
    /\ gen' = [gen EXCEPT ![p] = g]
    /\ CASE p = "main" ->
              /\ pc' = [pc EXCEPT !["main"] = "serving", !["req"] = "idle",
                                  !["sched"] = IF g.result = "ok" THEN "sleep" ELSE "off"]
              /\ next_run' = IF g.result = "ok" THEN NextRunDay(now) ELSE next_run
              /\ UNCHANGED resp
         [] p = "sched" ->
              /\ pc' = [pc EXCEPT !["sched"] = IF g.result = "ok" THEN "sleep" ELSE "dead"]
              /\ next_run' = IF g.result = "ok" THEN NextRunDay(now) ELSE next_run
              /\ UNCHANGED resp
         [] p = "req" ->
              /\ UNCHANGED next_run
              /\ IF g.result # "ok"
                 THEN /\ pc' = [pc EXCEPT !["req"] = "done"]
                      /\ resp' = Response(500, g.result, {}, NoDate, FALSE)
                 ELSE IF req.kind = "refresh"
                 THEN /\ pc' = [pc EXCEPT !["req"] = "done"]
                      /\ resp' = Response(200, "none", {}, token_generated_date', FALSE)
                 ELSE /\ pc' = [pc EXCEPT !["req"] = "ret"]
                      /\ UNCHANGED resp
    /\ UNCHANGED <<now, api_key, secret, built, req, current_token, current_groww, data_calls>>

\* a variant that tests the key only
CredentialsPresent_KeyOnly(k, s) == Truthy(k)

\* lines 91-94: not api_key / not secret
CredentialsPresent(k, s) == Truthy(k) /\ Truthy(s)

\* lines 90-94: the credential checks
GenCheck(p) ==
    /\ pc[p] = "gen_check"
    /\ IF CredentialsPresent(api_key, secret)
       THEN /\ pc' = [pc EXCEPT ![p] = "gen_exchange"]
            /\ UNCHANGED <<now, api_key, secret, built, next_run, gen, req, current_token,
                           current_groww, data_calls, resp>>
       ELSE Finish(p, [gen[p] EXCEPT !.result = "CredentialError"])
    /\ UNCHANGED cred
    /\ UNCHANGED normalisation

\* line 102: the exchange call and the write of access_token; a raising
\* call is caught at line 109 and becomes the "Error fetching access token" 500
GenExchange(p) ==
    /\ pc[p] = "gen_exchange"
    /\ \E ok \in BOOLEAN :
          IF ok
          THEN /\ access_token' = NewToken(p, now)
               /\ pc' = [pc EXCEPT ![p] = "gen_client"]
               /\ gen' = [gen EXCEPT ![p].calls = @ + 1]
               /\ UNCHANGED <<now, api_key, secret, built, groww, token_generated_date,
                              next_run, req, current_token, current_groww,
                              data_calls, resp>>
          ELSE /\ Finish(p, [calls |-> gen[p].calls + 1, result |-> "UpstreamAuthError"])
               /\ UNCHANGED cred
    /\ UNCHANGED normalisation

\* line 103, right-hand side: GrowwAPI(access_token) reads the global
\* token and constructs the client
GenBuild(p) ==
    /\ pc[p] = "gen_client"
    /\ \E ok \in BOOLEAN :
          IF ok
          THEN /\ built' = [built EXCEPT ![p] = Client(access_token)]
               /\ pc' = [pc EXCEPT ![p] = "gen_store"]
               /\ UNCHANGED <<now, api_key, secret, next_run, gen, req, current_token,
                              current_groww, data_calls, resp>>
          ELSE Finish(p, [gen[p] EXCEPT !.result = "UpstreamAuthError"])
    /\ UNCHANGED cred
    /\ UNCHANGED normalisation

\* line 103, left-hand side: the constructed client is stored in groww
GenStore(p) ==
    /\ pc[p] = "gen_store"
    /\ groww' = built[p]
    /\ built' = [built EXCEPT ![p] = None]
    /\ pc' = [pc EXCEPT ![p] = "gen_date"]
    /\ UNCHANGED <<now, api_key, secret, access_token, token_generated_date,
                   next_run, gen, req, current_token, current_groww,
                   data_calls, resp>>
    /\ UNCHANGED normalisation

\* lines 104-106: the issue date is written and the call returns
GenDate(p) ==
    /\ pc[p] = "gen_date"
    /\ token_generated_date' = now.day
    /\ UNCHANGED <<access_token, groww>>
    /\ Finish(p, [gen[p] EXCEPT !.result = "ok"])
    /\ UNCHANGED normalisation

\* ---------------------------------------------------------------- startup
\* lines 177-186: the module body
Startup ==
    /\ pc["main"] = "start"
    /\ IF Truthy(api_key) /\ Truthy(secret)
       THEN /\ pc' = [pc EXCEPT !["main"] = "gen_check"]
            /\ gen' = [gen EXCEPT !["main"] = StartGen]
       ELSE /\ pc' = [pc EXCEPT !["main"] = "serving", !["req"] = "idle"]
            /\ UNCHANGED gen
    /\ UNCHANGED <<now, api_key, secret, built, access_token, groww, token_generated_date,
                   next_run, req, current_token, current_groww, data_calls, resp>>
    /\ UNCHANGED normalisation

\* -------------------------------------------------------------- scheduler
\* lines 154-155: a poll of run_pending that finds the job due runs it
SchedulerPoll ==
    /\ Due
    /\ pc' = [pc EXCEPT !["sched"] = "gen_check"]
    /\ gen' = [gen EXCEPT !["sched"] = StartGen]
    /\ UNCHANGED <<now, api_key, secret, built, access_token, groww, token_generated_date,
                   next_run, req, current_token, current_groww, data_calls, resp>>
    /\ UNCHANGED normalisation

\* --------------------------------------------------------------- requests
Kinds == {"ltp", "ohlc", "status", "refresh"}

\* The event loop takes the next request.  has_symbols is bool(symbols),
\* all that lines 197 and 230 look at; the elements of a non-empty list
\* are read first by the loops of lines 206 and 239 and are drawn there.
Receive ==
    /\ pc["req"] = "idle"
    /\ \E k \in Kinds, b \in BOOLEAN :
          /\ (k \notin {"ltp", "ohlc"}) => ~b
          /\ req' = [kind |-> k, has_symbols |-> b, symbols |-> <<>>]
    /\ pc' = [pc EXCEPT !["req"] = "recv"]
    /\ UNCHANGED <<now, api_key, secret, built, access_token, groww, token_generated_date,
                   next_run, gen, current_token, current_groww, data_calls, resp>>
    /\ UNCHANGED normalisation

\* the response has been sent: the handler's frame is gone and the event
\* loop is free for the next request
Deliver ==
    /\ pc["req"] = "done"
    /\ pc' = [pc EXCEPT !["req"] = "idle"]
    /\ req' = NoReq
    /\ resp' = NoResp
    /\ current_token' = None
    /\ current_groww' = None
    /\ data_calls' = <<>>
    /\ gen' = [gen EXCEPT !["req"] = NoGen]
    /\ UNCHANGED <<now, api_key, secret, built, access_token, groww, token_generated_date,
                   next_run>>
    /\ UNCHANGED normalisation

\* a variant that obtains the client before it looks at the list
ValidateSymbols_Late ==
    /\ pc["req"] = "recv"
    /\ req.kind \in {"ltp", "ohlc"}
    /\ pc' = [pc EXCEPT !["req"] = "ensure"]
    /\ UNCHANGED <<now, api_key, secret, built, access_token, groww, token_generated_date,
                   next_run, gen, req, current_token, current_groww, data_calls, resp>>
    /\ UNCHANGED normalisation

\* lines 195-198 and 228-231: an empty list is answered with 400
ValidateSymbols ==
    /\ pc["req"] = "recv"
    /\ req.kind \in {"ltp", "ohlc"}
    /\ IF ~req.has_symbols
       THEN /\ pc' = [pc EXCEPT !["req"] = "done"]
            /\ resp' = Response(400, "ValidationError", {}, NoDate, FALSE)
       ELSE /\ pc' = [pc EXCEPT !["req"] = "ensure"]
            /\ UNCHANGED resp
    /\ UNCHANGED <<now, api_key, secret, built, access_token, groww, token_generated_date,
                   next_run, gen, req, current_token, current_groww, data_calls>>
    /\ UNCHANGED normalisation

\* lines 144-145: get_valid_access_token decides
EnsureValid ==
    /\ pc["req"] = "ensure"
    /\ IF should_regenerate_token(now, access_token, token_generated_date)
       THEN /\ pc' = [pc EXCEPT !["req"] = "gen_check"]
            /\ gen' = [gen EXCEPT !["req"] = StartGen]
       ELSE /\ pc' = [pc EXCEPT !["req"] = "ret"]
            /\ UNCHANGED gen
    /\ UNCHANGED <<now, api_key, secret, built, access_token, groww, token_generated_date,
                   next_run, req, current_token, current_groww, data_calls, resp>>
    /\ UNCHANGED normalisation

\* line 147 and lines 200-203: get_valid_access_token returns the globals
\* and the handler tests the client
EnsureValidReturn ==
    /\ pc["req"] = "ret"
    /\ current_token' = access_token
    /\ current_groww' = groww
    /\ IF groww = None
       THEN /\ pc' = [pc EXCEPT !["req"] = "done"]
            /\ resp' = Response(500, "ClientNotInitialized", {}, NoDate, FALSE)
       ELSE /\ pc' = [pc EXCEPT !["req"] = "fetch"]
            /\ UNCHANGED resp
    /\ UNCHANGED <<now, api_key, secret, built, access_token, groww, token_generated_date,
                   next_run, gen, req, data_calls>>
    /\ UNCHANGED normalisation

\* the payload the upstream returns to client c for one exchange symbol
Payload(kind, c, xsym) == [op |-> kind, symbol |-> xsym, token |-> c.token]

\* the upstream calls made for the first n symbols, in list order
CallsFor(syms, n) == [i \in 1..n |-> ExchangeSymbol(syms[i])]

\* a variant that keys the mapping by the exchange-qualified symbol
Mapping_QualifiedKeys(kind, c, syms) ==
    {[key |-> ExchangeSymbol(syms[i]),
      value |-> Payload(kind, c, ExchangeSymbol(syms[i]))] : i \in 1..Len(syms)}

\* ltp_response / ohlc_response after the whole list
Mapping(kind, c, syms) ==
    {[key |-> syms[i], value |-> Payload(kind, c, ExchangeSymbol(syms[i]))] :
        i \in 1..Len(syms)}

\* a variant that skips a symbol whose call raises and goes on with the rest
Fetch_SkipFailed ==
    /\ pc["req"] = "fetch"
    /\ \E syms \in SymbolLists, failAt \in 0..MaxSymbols :
          /\ failAt <= Len(syms)
          /\ req' = [req EXCEPT !.symbols = syms]
          /\ data_calls' = CallsFor(syms, Len(syms))
          /\ resp' = Response(200, "none",
                              {e \in Mapping(req.kind, current_groww, syms) :
                                  failAt = 0 \/ e.key # syms[failAt]},
                              NoDate, FALSE)
    /\ pc' = [pc EXCEPT !["req"] = "done"]
    /\ UNCHANGED <<now, api_key, secret, built, access_token, groww, token_generated_date,
                   next_run, gen, current_token, current_groww>>
    /\ UNCHANGED normalisation

\* lines 205-219 and 238-252: one upstream call per symbol; the first call
\* that raises ends the request with a 500
Fetch ==
    /\ pc["req"] = "fetch"
    /\ \E syms \in SymbolLists, failAt \in 0..MaxSymbols :
          /\ failAt <= Len(syms)
          /\ req' = [req EXCEPT !.symbols = syms]
          /\ IF failAt = 0
             THEN /\ data_calls' = CallsFor(syms, Len(syms))
                  /\ resp' = Response(200, "none",
                                      Mapping(req.kind, current_groww, syms),
                                      NoDate, FALSE)
             ELSE /\ data_calls' = CallsFor(syms, failAt)
                  /\ resp' = Response(500, "UpstreamDataError", {}, NoDate, FALSE)
    /\ pc' = [pc EXCEPT !["req"] = "done"]
    /\ UNCHANGED <<now, api_key, secret, built, access_token, groww, token_generated_date,
                   next_run, gen, current_token, current_groww>>
    /\ UNCHANGED normalisation

\* a variant that regenerates when the answer is true
TokenStatus_Regenerates ==
    /\ pc["req"] = "recv"
    /\ req.kind = "status"
    /\ IF should_regenerate_token(now, access_token, token_generated_date)
       THEN /\ pc' = [pc EXCEPT !["req"] = "gen_check"]
            /\ gen' = [gen EXCEPT !["req"] = StartGen]
            /\ UNCHANGED resp
       ELSE /\ pc' = [pc EXCEPT !["req"] = "done"]
            /\ resp' = Response(200, "none", {}, token_generated_date, FALSE)
            /\ UNCHANGED gen
    /\ UNCHANGED <<now, api_key, secret, built, access_token, groww, token_generated_date,
                   next_run, req, current_token, current_groww, data_calls>>
    /\ UNCHANGED normalisation

\* lines 368-390: GET /token-status
TokenStatus ==
    /\ pc["req"] = "recv"
    /\ req.kind = "status"
    /\ resp' = Response(200, "none", {}, token_generated_date,
                        should_regenerate_token(now, access_token, token_generated_date))
    /\ pc' = [pc EXCEPT !["req"] = "done"]
    /\ UNCHANGED <<now, api_key, secret, built, access_token, groww, token_generated_date,
                   next_run, gen, req, current_token, current_groww, data_calls>>
    /\ UNCHANGED normalisation

\* lines 393-397: POST /refresh-token calls generate_access_token
RefreshToken ==
    /\ pc["req"] = "recv"
    /\ req.kind = "refresh"
    /\ pc' = [pc EXCEPT !["req"] = "gen_check"]
    /\ gen' = [gen EXCEPT !["req"] = StartGen]
    /\ UNCHANGED <<now, api_key, secret, built, access_token, groww, token_generated_date,
                   next_run, req, current_token, current_groww, data_calls, resp>>
    /\ UNCHANGED normalisation

\* --------------------------------------------------- candle normalisation
\* A number is q * 1000 + r + f / 10 with 0 <= r < 1000 and 0 <= f < 10,
\* so that millisecond timestamps beyond 2^31 stay representable; the
\* numbers of this model are never negative.
Num(q, r, f) == [q |-> q, r |-> r, f |-> f]

Zero == Num(0, 0, 0)

\* the literal 9999999999 of lines 310 and 327
Threshold == Num(9999999, 999, 0)

\* truncation toward zero, the integer part of a number
Whole(n) == [n EXCEPT !.f = 0]

\* a > b
GreaterThan(a, b) ==
    \/ a.q > b.q
    \/ a.q = b.q /\ a.r > b.r
    \/ a.q = b.q /\ a.r = b.r /\ a.f > b.f

\* the test of lines 310 and 327 taken as t >= 9999999999
ExceedsSeconds_Inclusive(n) == ~GreaterThan(Threshold, n)

\* t > 9999999999, lines 310 and 327
ExceedsSeconds(n) == GreaterThan(n, Threshold)

\* int(t / 1000), lines 311 and 328: the quotient's fraction is dropped
DivideByThousand(n) == Num(n.q \div 1000, n.q % 1000, 0)

\* the values an upstream JSON field holds
IntValue(n) == [type |-> "int", num |-> n]
FloatValue(n) == [type |-> "float", num |-> n]
\* a string; form says what it spells: an integer literal ("100"), a
\* literal with a decimal point ("100.0") or no number at all ("abc")
StrValue(form, n) == [type |-> "str", form |-> form, num |-> n]
NoneValue == [type |-> "NoneType"]

\* the outcome of an expression that raised
Raised == [raised |-> TRUE]

\* int(v): a float is truncated, a string must spell an integer literal
PyInt(v) ==
    CASE v.type = "int" -> v.num
      [] v.type = "float" -> Whole(v.num)
      [] v.type = "str" -> IF v.form = "integer" THEN v.num ELSE Raised
      [] OTHER -> Raised

\* float(v): a string may spell an integer or a decimal literal
PyFloat(v) ==
    CASE v.type = "int" -> v.num
      [] v.type = "float" -> v.num
      [] v.type = "str" -> IF v.form \in {"integer", "decimal"} THEN v.num ELSE Raised
      [] OTHER -> Raised

\* d.get(k, default)
Get(d, k, default) == IF k \in DOMAIN d THEN d[k] ELSE default

\* timestamp_seconds after lines 307-311, or Raised
DictTimestamp(d) ==
    LET t0 == Get(d, "time", Get(d, "t", IntValue(Zero)))
        t1 == IF t0.type = "str"
              THEN IF PyFloat(t0) = Raised THEN Raised
                   ELSE IntValue(Whole(PyFloat(t0)))
              ELSE t0
    IN  IF t1 = Raised THEN Raised
        ELSE IF t1.type \notin {"int", "float"} THEN Raised
        ELSE IF ExceedsSeconds(t1.num) THEN IntValue(DivideByThousand(t1.num))
        ELSE t1

\* the candle append_from_dict appends, or Raised when its try block raises
append_from_dict(d) ==
    LET t == DictTimestamp(d)
        c == << IF t = Raised THEN Raised ELSE PyInt(t),
                PyFloat(Get(d, "open", Get(d, "o", IntValue(Zero)))),
                PyFloat(Get(d, "high", Get(d, "h", IntValue(Zero)))),
                PyFloat(Get(d, "low", Get(d, "l", IntValue(Zero)))),
                PyFloat(Get(d, "close", Get(d, "c", IntValue(Zero)))),
                PyInt(Get(d, "volume", Get(d, "v", IntValue(Zero)))) >>
    IN  IF \E i \in 1..6 : c[i] = Raised THEN Raised ELSE c

\* the candle append_from_list appends, or Raised when its try block raises
append_from_list(l) ==
    IF Len(l) = 0 THEN Raised
    ELSE IF PyInt(l[1]) = Raised THEN Raised
    ELSE IF Len(l) < 5 THEN Raised
    ELSE
      LET t0 == PyInt(l[1])
          c == << IF ExceedsSeconds(t0) THEN DivideByThousand(t0) ELSE t0,
                  PyFloat(l[2]), PyFloat(l[3]), PyFloat(l[4]), PyFloat(l[5]),
                  IF Len(l) > 5 THEN PyInt(l[6]) ELSE Zero >>
      IN  IF \E i \in 1..6 : c[i] = Raised THEN Raised ELSE c

\* what one turn of the loop of iterate_and_append does with an item
Normalise(item) ==
    CASE item.shape = "dict" -> append_from_dict(item.d)
      [] item.shape = "list" -> append_from_list(item.l)
      [] OTHER -> Raised

\* ---- the entries the upstream is taken to return
Fields == <<"time", "open", "high", "low", "close", "volume">>
FieldSet == {Fields[i] : i \in 1..6}

\* the key that names a field: style "long" is 'time', 'open', ...;
\* style "short" is 't', 'o', ...
Key(style, f) ==
    IF style = "long" THEN f
    ELSE CASE f = "time" -> "t" [] f = "open" -> "o" [] f = "high" -> "h"
           [] f = "low" -> "l" [] f = "close" -> "c" [] OTHER -> "v"

\* marks a field an entry does not carry
Absent == [absent |-> TRUE]

\* a sound entry: 1700000000, 1.5, 2, 1, "1.8", 100
BaseValue(f) ==
    CASE f = "time" -> IntValue(Num(1700000, 0, 0))
      [] f = "open" -> FloatValue(Num(0, 1, 5))
      [] f = "high" -> IntValue(Num(0, 2, 0))
      [] f = "low" -> IntValue(Num(0, 1, 0))
      [] f = "close" -> StrValue("decimal", Num(0, 1, 8))
      [] OTHER -> IntValue(Num(0, 100, 0))

\* timestamps: seconds, the threshold itself, one above it, milliseconds,
\* milliseconds as a string, seconds as a decimal string, no number, null
TimeValues ==
    { IntValue(Num(1700000, 0, 0)), IntValue(Threshold),
      IntValue(Num(10000000, 0, 0)), IntValue(Num(1700000000, 123, 0)),
      StrValue("integer", Num(1700000000, 123, 0)),
      StrValue("decimal", Num(1700000, 0, 0)),
      StrValue("text", Zero), NoneValue, Absent }

PriceValues ==
    { StrValue("integer", Num(0, 2, 0)), StrValue("text", Zero), NoneValue, Absent }

VolumeValues ==
    { StrValue("integer", Num(0, 100, 0)), StrValue("decimal", Num(0, 100, 0)),
      FloatValue(Num(0, 100, 5)), NoneValue, Absent }

\* the sound entry with one field replaced
Variation(f, x) == [g \in FieldSet |-> IF g = f THEN x ELSE BaseValue(g)]

Assignments ==
    {Variation("time", x) : x \in TimeValues}
    \cup {Variation(f, x) : f \in {"open", "close"}, x \in PriceValues}
    \cup {Variation("volume", x) : x \in VolumeValues}

\* an object entry carrying the fields of a that are not Absent
DictOf(style, a) ==
    LET carried == {g \in FieldSet : a[g] # Absent}
    IN  [shape |-> "dict",
         d |-> [k \in {Key(style, g) : g \in carried} |->
                   a[CHOOSE g \in carried : Key(style, g) = k]]]

\* a positional entry: the fields of a up to the first Absent one
ListOf(a) ==
    LET n == IF \E i \in 1..6 : a[Fields[i]] = Absent
             THEN (CHOOSE i \in 1..6 : /\ a[Fields[i]] = Absent
                                       /\ \A j \in 1..(i - 1) : a[Fields[j]] # Absent) - 1
             ELSE 6
    IN  [shape |-> "list", l |-> [i \in 1..n |-> a[Fields[i]]]]

\* an object carrying both 'time' (milliseconds) and 't' (seconds)
BothKeys ==
    LET a == Variation("time", IntValue(Num(1700000000, 123, 0)))
    IN  [shape |-> "dict",
         d |-> [k \in FieldSet \cup {"t"} |->
                   IF k = "t" THEN IntValue(Num(1700000, 0, 0)) ELSE a[k]]]

\* an item that is neither an object nor an array
OtherItem == [shape |-> "other"]

Entries ==
    {DictOf("long", a) : a \in Assignments}
    \cup {DictOf("short", Variation("time", x)) : x \in TimeValues}
    \cup {ListOf(a) : a \in Assignments}
    \cup {BothKeys, OtherItem}

\* one turn of the loop of iterate_and_append (lines 336-340)
IterateAndAppend ==
    /\ item_no < Len(items)
    /\ LET candle == Normalise(items[item_no + 1])
       IN  /\ item_no' = item_no + 1
           /\ candles_array' = IF candle = Raised THEN candles_array
                               ELSE Append(candles_array, candle)
           /\ appended_from' = IF candle = Raised THEN appended_from
                               ELSE Append(appended_from, item_no + 1)
    /\ UNCHANGED items
    /\ UNCHANGED lifecycle

\* the upstream has answered with a list of entries (line 293) and
\* candles_array is empty (line 303); the token state plays no part
InitCandles ==
    /\ now = [day |-> 0, time |-> 10 * 60]
    /\ api_key = "k"
    /\ secret = "k"
    /\ access_token = None
    /\ groww = None
    /\ token_generated_date = NoDate
    /\ pc = [p \in Threads |-> IF p = "main" THEN "start" ELSE "off"]
    /\ next_run = NoDate
    /\ gen = [p \in Threads |-> NoGen]
    /\ built = [p \in Threads |-> None]
    /\ req = NoReq
    /\ current_token = None
    /\ current_groww = None
    /\ data_calls = <<>>
    /\ resp = NoResp
    /\ items \in UNION {[1..n -> Entries] : n \in 0..MaxCandles}
    /\ item_no = 0
    /\ candles_array = <<>>
    /\ appended_from = <<>>

NextCandles == IterateAndAppend

SpecCandles == InitCandles /\ [][NextCandles]_vars

\* ------------------------------------------------------------------- Next
Next ==
    \/ Tick
    \/ Startup
    \/ SchedulerPoll
    \/ \E p \in Threads : GenCheck(p)
    \/ \E p \in Threads : GenExchange(p)
    \/ \E p \in Threads : GenBuild(p)
    \/ \E p \in Threads : GenStore(p)
    \/ \E p \in Threads : GenDate(p)
    \/ Receive
    \/ Deliver
    \/ ValidateSymbols
    \/ EnsureValid
    \/ EnsureValidReturn
    \/ Fetch
    \/ TokenStatus
    \/ RefreshToken

Spec == Init /\ [][Next]_vars

TypeOK ==
    /\ now \in [day : Days, time : TimesOfDay]
    /\ access_token = None \/ access_token \in [by : Threads, day : Days, time : TimesOfDay]
    /\ token_generated_date \in Days \cup {NoDate}
    /\ resp.status \in {0, 200, 400, 500}

\* ================================================================ claims
\* the 03:30 cutover (minutes since day 0) that is the latest one <= t
MostRecentCutover(t) ==
    IF t.time >= Cutover
    THEN t.day * MinutesPerDay + Cutover
    ELSE (t.day - 1) * MinutesPerDay + Cutover

\* no thread is inside generate_access_token
NoRegenerationRunning ==
    \A p \in Threads : pc[p] \notin {"gen_check", "gen_exchange", "gen_client",
                                     "gen_store", "gen_date"}

\* C1: the token get_valid_access_token hands out was issued at or after the
\* most recent 03:30 cutover: whenever the call decides at instant now to
\* return the stored token without regenerating, the stored token was
\* issued at or after the latest cutover that is <= now.
C1_TokenIssuedAfterCutover ==
    [][(pc["req"] = "ensure" /\ pc'["req"] = "ret")
          => Minutes(access_token) >= MostRecentCutover(now)]_vars

\* C2: the scheduler thread survives a failed regeneration: once started it
\* never ends, so it can attempt the job again on the next day.
C2_SchedulerSurvives == pc["sched"] # "dead"

\* C3: in every state the stored token is absent if and only if the stored
\* issue date is absent.
C3_TokenIffIssueDate == (access_token = None) <=> (token_generated_date = NoDate)

\* C4: when the scheduler's regeneration and a request's regeneration have
\* both completed successfully, the stored client is the one built from the
\* stored token.
C4_ClientBuiltFromStoredToken ==
    (gen["sched"].result = "ok" /\ gen["req"].result = "ok" /\ NoRegenerationRunning)
        => groww = Client(access_token)

\* C5: with API key and secret present at process start, once the HTTP
\* surface serves the daily scheduler has been started, whether the eager
\* regeneration succeeded or failed.
C5_SchedulerStartedWhenServing ==
    (Truthy(api_key) /\ Truthy(secret) /\ pc["main"] = "serving")
        => pc["sched"] # "off"

\* C6: while no regeneration has succeeded (no token or no issue date is
\* stored) should_regenerate_token returns true at every instant, and
\* /token-status reports it so.
C6_NoCredentialMeansRegenerate ==
    /\ (access_token = None \/ token_generated_date = NoDate)
          => should_regenerate_token(now, access_token, token_generated_date)
    /\ (pc["req"] = "done" /\ req.kind = "status"
            /\ resp.token_generated_date = NoDate)
          => resp.should_regenerate

C6_Witness ==
    /\ pc["req"] = "done" /\ req.kind = "status"
    /\ token_generated_date = NoDate
    /\ resp.should_regenerate
    /\ now.time >= Cutover

\* C7: with a stored credential issued today and a time of day before
\* 03:30, should_regenerate_token returns false.
C7_SameDayBeforeCutover ==
    (access_token # None /\ token_generated_date = now.day /\ now.time < Cutover)
        => ~should_regenerate_token(now, access_token, token_generated_date)

C7_Witness ==
    /\ access_token # None /\ token_generated_date = now.day /\ now.time < Cutover
    /\ pc["req"] = "ret" /\ gen["req"] = NoGen

\* C8: with a stored credential issued yesterday, should_regenerate_token
\* returns true exactly when the time of day is 03:30 or later.
C8_YesterdayRule ==
    (access_token # None /\ token_generated_date # NoDate
        /\ token_generated_date = now.day - 1)
        => (should_regenerate_token(now, access_token, token_generated_date)
               <=> now.time >= Cutover)

C8_Witness ==
    /\ access_token # None /\ token_generated_date # NoDate
    /\ token_generated_date = now.day - 1
    /\ now.time = Cutover
    /\ pc["req"] = "gen_check" /\ req.kind \in {"ltp", "ohlc"}

\* C9: a /get-ltp or /get-ohlc request with an empty symbol list is
\* answered 400 in the handler's first step: the credential is unchanged,
\* and no exchange call and no data call is made.
C9_EmptyListRejectedFirst ==
    [][(pc["req"] = "recv" /\ req.kind \in {"ltp", "ohlc"} /\ ~req.has_symbols
            /\ pc'["req"] # "recv")
          => /\ pc'["req"] = "done"
             /\ resp'.status = 400 /\ resp'.error = "ValidationError"
             /\ UNCHANGED cred
             /\ gen'["req"] = NoGen
             /\ data_calls' = <<>>]_vars

C9_Witness ==
    /\ pc["req"] = "done" /\ req.kind \in {"ltp", "ohlc"} /\ ~req.has_symbols
    /\ resp.status = 400
    /\ should_regenerate_token(now, access_token, token_generated_date)
    /\ access_token # None

\* C10: a generate_access_token call with key or secret missing ends with a
\* credential error and no exchange call; with both present a finished call
\* has made exactly one exchange call, whether it succeeded or failed.
C10_ExchangeCallsPerInvocation ==
    \A p \in Threads :
        /\ gen[p].calls <= 1
        /\ ~(Truthy(api_key) /\ Truthy(secret))
              => /\ gen[p].calls = 0
                 /\ gen[p].result \in {"none", "running", "CredentialError"}
        /\ (Truthy(api_key) /\ Truthy(secret))
              => /\ gen[p].result # "CredentialError"
                 /\ gen[p].result \in {"ok", "UpstreamAuthError"} => gen[p].calls = 1

C10_Witness ==
    /\ pc["req"] = "done" /\ resp.status = 500 /\ resp.error = "CredentialError"
    /\ gen["req"] = [calls |-> 0, result |-> "CredentialError"]
    /\ Truthy(api_key) /\ ~Truthy(secret)

\* C11: with credentials absent at startup every /get-ltp request with a
\* non-empty symbol list is answered with the client-not-initialized 500.
C11_ClientNotInitialized ==
    (~(Truthy(api_key) /\ Truthy(secret))
        /\ pc["req"] = "done" /\ req.kind = "ltp" /\ req.has_symbols)
        => (resp.status = 500 /\ resp.error = "ClientNotInitialized")

\* the symbols of a list
Elements(syms) == {syms[i] : i \in 1..Len(syms)}

\* C12: a successful /get-ltp or /get-ohlc has made no data call before
\* get_valid_access_token returned, then one data call per list element, in
\* list order, with "NSE_" + symbol; the mapping's keys are exactly the
\* unqualified symbols and each value is the payload of that symbol's call
\* made with the client get_valid_access_token returned.
C12_FetchMapping ==
    /\ (pc["req"] \in {"recv", "ensure", "gen_check", "gen_exchange", "gen_client",
                       "gen_store", "gen_date", "ret", "fetch"})
          => data_calls = <<>>
    /\ (pc["req"] = "done" /\ req.kind \in {"ltp", "ohlc"} /\ resp.status = 200)
          => /\ req.has_symbols /\ req.symbols # <<>>
             /\ current_groww # None
             /\ gen["req"].calls <= 1
             /\ Len(data_calls) = Len(req.symbols)
             /\ \A i \in 1..Len(req.symbols) : data_calls[i] = "NSE_" \o req.symbols[i]
             /\ {e.key : e \in resp.data} = Elements(req.symbols)
             /\ \A e \in resp.data :
                   e.value = [op |-> req.kind, symbol |-> "NSE_" \o e.key,
                              token |-> current_groww.token]

C12_Witness ==
    /\ pc["req"] = "done" /\ req.kind = "ohlc" /\ resp.status = 200
    /\ Len(req.symbols) = 2 /\ req.symbols[1] # req.symbols[2]
    /\ gen["req"].result = "ok"

\* ---- candle normalisation (SpecCandles)
\* the input positions whose entries yielded a candle
Appended == {appended_from[k] : k \in 1..Len(appended_from)}

\* the value item carries for field f, Absent when it carries none
Carried(item, f) ==
    LET i == CHOOSE j \in 1..6 : Fields[j] = f
    IN  CASE item.shape = "dict" ->
               Get(item.d, Key("long", f), Get(item.d, Key("short", f), Absent))
          [] item.shape = "list" -> IF Len(item.l) >= i THEN item.l[i] ELSE Absent
          [] OTHER -> Absent

\* v is a number or a string that spells one
Numeric(v) ==
    /\ v # Absent
    /\ \/ v.type \in {"int", "float"}
       \/ v.type = "str" /\ v.form \in {"integer", "decimal"}

\* an entry that misses a time or price field or holds a non-numeric value
Malformed(item) ==
    \/ \E f \in {"time", "open", "high", "low", "close"} : Carried(item, f) = Absent
    \/ \E f \in FieldSet : Carried(item, f) # Absent /\ ~Numeric(Carried(item, f))

\* C13: when the loop has taken every entry, no object or array entry that
\* misses a time or price field or holds a non-numeric value has yielded a
\* candle, every other object or array entry has yielded one, and the
\* candles stand in the order of their entries.
C13_DropsExactlyMalformed ==
    item_no = Len(items) =>
        /\ \A i \in 1..Len(items) :
              items[i].shape \in {"dict", "list"} =>
                  (Malformed(items[i]) <=> i \notin Appended)
        /\ \A j, k \in 1..Len(appended_from) :
              j < k => appended_from[j] < appended_from[k]

\* the epoch the rule assigns to a timestamp of whole value n
ExpectedEpoch(n) ==
    IF n.q >= 10000000 THEN Num(n.q \div 1000, n.q % 1000, 0) ELSE n

C15_RefreshForcesRegeneration ==
    [][(pc["req"] \in {"gen_check", "gen_exchange", "gen_client", "gen_date"}
            /\ req.kind = "refresh" /\ pc'["req"] = "done"
            /\ Truthy(api_key) /\ Truthy(secret))
          => /\ gen'["req"].calls = 1
             /\ resp'.status \in {200, 500}
             /\ resp'.status = 200
                   => /\ access_token' = NewToken("req", [day |-> access_token'.day,
                                                        time |-> access_token'.time])
                      /\ groww' = Client(access_token')
                      /\ token_generated_date' = now.day
                      /\ resp'.token_generated_date = now.day]_vars

\* C16: when the stored token was issued today at or after 03:30 and it is
\* still the same day, should_regenerate_token returns false.
C16_SameDayAfterCutover ==
    (access_token # None /\ token_generated_date = now.day
        /\ access_token.day = now.day /\ access_token.time >= Cutover)
        => ~should_regenerate_token(now, access_token, token_generated_date)

\* C17: get_valid_access_token regenerates exactly when
\* should_regenerate_token is true at the call; when it is false the call
\* makes no exchange and returns the stored token and client; when it is
\* true the call returns the token its own regeneration produced, and a
\* failed regeneration ends the request with a 500 and no token returned.
C17_EnsureValid ==
    /\ [][(pc["req"] = "ensure" /\ pc'["req"] # "ensure")
             => /\ UNCHANGED cred
                /\ should_regenerate_token(now, access_token, token_generated_date)
                      <=> pc'["req"] = "gen_check"]_vars
    /\ [][(pc["req"] = "ret" /\ pc'["req"] # "ret")
             => /\ UNCHANGED cred
                /\ gen["req"] \in {NoGen, [calls |-> 1, result |-> "ok"]}
                /\ gen["req"] = NoGen
                      => (current_token' = access_token /\ current_groww' = groww)
                /\ gen["req"].result = "ok"
                      => /\ current_token'.by = "req"
                         /\ current_groww' = Client(current_token')]_vars
    /\ [](\A k \in {"ltp", "ohlc"} :
             (req.kind = k /\ gen["req"].result \in {"CredentialError", "UpstreamAuthError"})
                => (pc["req"] = "done" /\ resp.status = 500
                      /\ current_token = None /\ data_calls = <<>>))

\* C18: a generate_access_token call that fails leaves access_token, groww
\* and token_generated_date as they were: a thread inside the call that has
\* written the token has not failed yet and does not fail later.
C18_FailedRegenerateChangesNothing ==
    [][\A p \in Threads :
          (gen'[p].result \in {"CredentialError", "UpstreamAuthError"}
              /\ gen[p].result = "running")
            => pc[p] \in {"gen_check", "gen_exchange"}]_vars

\* C19: /token-status and the decision of get_valid_access_token only
\* read: the step leaves token, client and issue date unchanged and makes
\* no upstream call, also when the answer is true.
C19_ReadOnly ==
    [][((pc["req"] = "recv" /\ req.kind = "status" /\ pc'["req"] # "recv")
          \/ (pc["req"] = "ensure" /\ pc'["req"] # "ensure"))
          => /\ UNCHANGED cred
             /\ gen'["req"].calls = 0
             /\ data_calls' = <<>>
             /\ (req.kind = "status")
                   => /\ pc'["req"] = "done"
                      /\ resp'.should_regenerate
                            = should_regenerate_token(now, access_token,
                                                      token_generated_date)]_vars

C19_Witness ==
    /\ pc["req"] = "done" /\ req.kind = "status"
    /\ resp.should_regenerate
    /\ access_token # None /\ token_generated_date # NoDate
    /\ gen["req"] = NoGen

\* C20: a /get-ltp or /get-ohlc request whose data call raises for some
\* symbol is answered 500 with no mapping, the raising call is the last
\* call made, and the fetch loop leaves the credential untouched.
C20_AllOrNothing ==
    [][(pc["req"] = "fetch" /\ pc'["req"] # "fetch")
          => /\ UNCHANGED cred
             /\ resp'.status \in {200, 500}
             /\ resp'.status = 200 => Len(data_calls') = Len(req'.symbols)
             /\ resp'.status = 500
                   => /\ resp'.error = "UpstreamDataError"
                      /\ resp'.data = {}
                      /\ Len(data_calls') \in 1..Len(req'.symbols)
             /\ \A i \in 1..Len(data_calls') :
                   data_calls'[i] = ExchangeSymbol(req'.symbols[i])
             /\ {e.key : e \in resp'.data} \in {{}, Elements(req'.symbols)}]_vars

C20_Witness ==
    /\ pc["req"] = "done" /\ req.kind \in {"ltp", "ohlc"}
    /\ resp.status = 500 /\ resp.error = "UpstreamDataError"
    /\ Len(data_calls) = 1 /\ Len(req.symbols) = 2

====
